---- MODULE Spec2Model ----
(***************************************************************************)
(* A model of the OpenBook file-system abstraction (openbook/src/fs):      *)
(* the local watcher's change-notification pipeline (background thread,    *)
(* raw-event channel, normalization filter, sink), the mutex-guarded       *)
(* watch registration, the directory iterator, the existence predicates,   *)
(* the Sender used as a sink, and the document tree visitor                *)
(* (openbook/src/tree/visitor.rs).                                         *)
(***************************************************************************)
EXTENDS Integers, Sequences, FiniteSets, TLC

(***************************************************************************)
(* Bounds of the model.                                                    *)
(***************************************************************************)
\* Raw events the backend places on the channel during one watcher's life.
MaxRaw == 2
\* Entries of the directory a directory iterator lists.
MaxEntries == 3
\* Nodes of a document tree.
MaxNodes == 7
\* Events handed to a Sender<FileSystemEvent> used as the sink.
MaxSend == 3

(***************************************************************************)
(* Values.                                                                 *)
(***************************************************************************)
\* Option<T>: None is the empty sequence, Some(x) the one-element sequence.
None == <<>>
Some(x) == <<x>>

\* Result<T>: Ok(v) and Err(e).
Ok(v) == [ok |-> TRUE, val |-> v]
Err(e) == [ok |-> FALSE, err |-> e]

\* The unit value ().
Unit == "unit"

\* Paths are sequences of components.
WatchPaths == { <<"d">>, <<"d", "s">> }
FilePaths == { <<"d", "a">>, <<"d", "s", "b">> }

\* Failures reported by the notify backend (type-erased inside Error::Inner).
NotifyErrors == { "notify_err" }

\* Variant: the wrapped failure lands in the Msg variant.
from_inner_as_msg(inner) == [variant |-> "Msg", inner |-> inner]
\* Error::from_inner wraps an underlying failure in the Inner variant.
from_inner(inner) == [variant |-> "Inner", inner |-> inner]

\* Error::from_message builds the Msg variant.
from_message(msg) == [variant |-> "Msg", msg |-> msg]

\* FileSystemWatchMode
WatchModes == { "Normal", "Recursive" }

\* notify::DebouncedEvent, the raw vocabulary of the backend.
RawPathKinds == { "NoticeWrite", "NoticeRemove", "Create", "Write", "Chmod", "Remove" }
RawEvents ==
    { [kind |-> k, path |-> Some(p), to |-> None, err |-> None] :
          k \in RawPathKinds, p \in FilePaths }
    \cup { [kind |-> "Rename", path |-> Some(ab[1]), to |-> Some(ab[2]), err |-> None] :
          ab \in { x \in FilePaths \X FilePaths : x[1] # x[2] } }
    \cup { [kind |-> "Rescan", path |-> None, to |-> None, err |-> None] }
    \cup { [kind |-> "Error", path |-> p, to |-> None, err |-> Some(e)] :
          p \in { None } \cup { Some(q) : q \in FilePaths }, e \in NotifyErrors }

\* FileSystemEvent, the normalized vocabulary.
Create(path) == [kind |-> "Create", path |-> path]
Delete(path) == [kind |-> "Delete", path |-> path]
Rename(from, to) == [kind |-> "Rename", from |-> from, to |-> to]
Write(path) == [kind |-> "Write", path |-> path]
Error(e, path) == [kind |-> "Error", err |-> e, path |-> path]

(***************************************************************************)
(* filter_raw_fs_event: the normalization filter.                          *)
(***************************************************************************)
\* Variant: a permission change is forwarded as a write.
filter_chmod_as_write(raw_event) ==
    CASE raw_event.kind = "Create" -> Some(Create(raw_event.path[1]))
      [] raw_event.kind = "Remove" -> Some(Delete(raw_event.path[1]))
      [] raw_event.kind = "Rename" ->
            Some(Rename(raw_event.path[1], raw_event.to[1]))
      [] raw_event.kind \in { "Write", "Chmod" } -> Some(Write(raw_event.path[1]))
      [] raw_event.kind = "Error" ->
            Some(Error(from_inner(raw_event.err[1]), raw_event.path))
      [] OTHER -> None

\* Variant: creations fall through to the catch-all arm.
filter_create_dropped(raw_event) ==
    CASE raw_event.kind = "Remove" -> Some(Delete(raw_event.path[1]))
      [] raw_event.kind = "Rename" ->
            Some(Rename(raw_event.path[1], raw_event.to[1]))
      [] raw_event.kind = "Write" -> Some(Write(raw_event.path[1]))
      [] raw_event.kind = "Error" ->
            Some(Error(from_inner(raw_event.err[1]), raw_event.path))
      [] OTHER -> None

\* Variant: a rename is forwarded as the removal of its source.
filter_rename_as_pair(raw_event) ==
    CASE raw_event.kind = "Create" -> Some(Create(raw_event.path[1]))
      [] raw_event.kind = "Remove" -> Some(Delete(raw_event.path[1]))
      [] raw_event.kind = "Rename" -> Some(Delete(raw_event.path[1]))
      [] raw_event.kind = "Write" -> Some(Write(raw_event.path[1]))
      [] raw_event.kind = "Error" ->
            Some(Error(from_inner(raw_event.err[1]), raw_event.path))
      [] OTHER -> None

filter_raw_fs_event(raw_event) ==
    CASE raw_event.kind = "Create" -> Some(Create(raw_event.path[1]))
      [] raw_event.kind = "Remove" -> Some(Delete(raw_event.path[1]))
      [] raw_event.kind = "Rename" ->
            Some(Rename(raw_event.path[1], raw_event.to[1]))
      [] raw_event.kind = "Write" -> Some(Write(raw_event.path[1]))
      [] raw_event.kind = "Error" ->
            Some(Error(from_inner(raw_event.err[1]), raw_event.path))
      [] OTHER -> None

(***************************************************************************)
(* State.                                                                  *)
(***************************************************************************)
VARIABLES
    watcher,       \* "none" | "alive" | "dropped" | "failed"
    createResult,  \* Option<Result<Watcher>>: what create_watcher returned
    senderAlive,   \* the producer side of the raw channel is open
    spawned,       \* how many threads std::thread::spawn has started
    raw_sent,      \* every raw event the backend has sent, in order
    chan,          \* raw events sent and not yet received
    consumed,      \* raw events the background thread has received, in order
    th_pc,         \* background thread: "none" | "recv" | "deliver" | "done"
    th_event,      \* Option<DebouncedEvent>: the event the thread holds
    th_last,       \* Option<[raw, out, sent]>: the thread's last loop iteration
    sinkCalls,     \* calls of event_sink.send so far: [ev, ok]
    registered,    \* the observer's (path, recursive mode) registrations
    mutex,         \* Option<thread>: the holder of raw_watcher's lock
    poisoned,      \* raw_watcher's lock is poisoned
    w_pc,          \* per caller thread: "idle" | "waiting" | "locked" | "inside" | "panicked"
    w_mode,        \* per caller thread: the FileSystemWatchMode of its call
    w_args,        \* per caller thread: the (path, notify_mode) of its call
    w_tmp,         \* per caller thread: the registrations the backend read
    w_result,      \* per caller thread: Option<Result<()>> of its last watch
    w_waited,      \* per caller thread: its call began during another's call
    rd_result,     \* Option<Result<DirIter>>: what read_directory returned
    it_listing,    \* the entry results the OS listing holds, in its order
    it_inner,      \* LocalFileSystemIter.inner: the entry results not yet pulled
    it_out,        \* the items next() has yielded, in order
    it_ended,      \* next() has returned None
    fs_kind,       \* what the OS holds at each probed path
    probe,         \* Option: the last has_file / has_dir call and its answer
    tr_tree,       \* the document tree: the positions of its nodes
    tr_stack,      \* the visit calls in progress: host and next child to visit
    tr_calls,      \* the calls made on the Visitor, in order
    tr_pc,         \* "idle" | "run" | "done": the traversal as a whole
    sink_rx,       \* the Receiver paired with the Sender sink is alive
    sink_queue,    \* events the Sender sink accepted and nobody received yet
    sink_sent,     \* every send on the Sender sink: the event and whether Ok
    sink_got       \* the events the consumer received, in order

pipeVars == <<watcher, createResult, senderAlive, spawned, raw_sent, chan, consumed, th_pc,
              th_event, th_last, sinkCalls>>
watchVars == <<registered, mutex, poisoned, w_pc, w_mode, w_args, w_tmp, w_result,
               w_waited>>
iterVars == <<rd_result, it_listing, it_inner, it_out, it_ended>>
fsVars == <<fs_kind, probe>>
treeVars == <<tr_tree, tr_stack, tr_calls, tr_pc>>
sinkVars == <<sink_rx, sink_queue, sink_sent, sink_got>>
restVars == <<fsVars, treeVars, sinkVars>>
vars == <<pipeVars, watchVars, iterVars, restVars>>

\* Threads that may call watch on the shared watcher.
Threads == { "t1", "t2" }

NoArgs == [path |-> <<>>, notify_mode |-> "NonRecursive"]

\* The paths has_file / has_dir are asked about, and what the OS may hold at a
\* path: a regular file, a directory, something else (a socket, a device),
\* nothing, or something whose metadata cannot be read.
ProbePaths == { <<"d">>, <<"d", "a">> }
FsKinds == { "file", "dir", "special", "missing", "denied" }

Init ==
    /\ watcher = "none"
    /\ createResult = None
    /\ senderAlive = FALSE
    /\ spawned = 0
    /\ raw_sent = <<>>
    /\ chan = <<>>
    /\ consumed = <<>>
    /\ th_pc = "none"
    /\ th_event = None
    /\ th_last = None
    /\ sinkCalls = <<>>
    /\ registered = {}
    /\ mutex = None
    /\ poisoned = FALSE
    /\ w_pc = [t \in Threads |-> "idle"]
    /\ w_mode = [t \in Threads |-> "Normal"]
    /\ w_args = [t \in Threads |-> NoArgs]
    /\ w_tmp = [t \in Threads |-> {}]
    /\ w_result = [t \in Threads |-> None]
    /\ w_waited = [t \in Threads |-> FALSE]
    /\ rd_result = None
    /\ it_listing = <<>>
    /\ it_inner = <<>>
    /\ it_out = <<>>
    /\ it_ended = FALSE
    /\ fs_kind = [p \in ProbePaths |-> "missing"]
    /\ probe = None
    /\ tr_tree = { <<>> }
    /\ tr_stack = <<>>
    /\ tr_calls = <<>>
    /\ tr_pc = "idle"
    /\ sink_rx = TRUE
    /\ sink_queue = <<>>
    /\ sink_sent = <<>>
    /\ sink_got = <<>>

(***************************************************************************)
(* create_watcher / LocalFileSystemWatcher::new.                           *)
(* The channel is created and the background thread spawned before the     *)
(* observer is initialized; notify::watcher takes the sender by value, so  *)
(* a failed initialization drops the sender.                               *)
(***************************************************************************)
\* Variant: the error is returned but the watcher is built all the same.
NewFailed_keeps_watcher(e) ==
    /\ watcher' = "alive"
    /\ senderAlive' = TRUE
    /\ createResult' = Some(Err(from_inner(e)))

\* Variant: the observer fails but the sender it was given stays alive.
NewFailed_leaks_sender(e) ==
    /\ watcher' = "failed"
    /\ senderAlive' = TRUE
    /\ createResult' = Some(Err(from_inner(e)))

NewFailed(e) ==
    /\ watcher' = "failed"
    /\ senderAlive' = FALSE
    /\ createResult' = Some(Err(from_inner(e)))

NewOk ==
    /\ watcher' = "alive"
    /\ senderAlive' = TRUE
    /\ createResult' = Some(Ok("watcher"))

\* std::thread::spawn starts one more thread.
\* Variant: a second thread is started for the same channel.
Spawn_pair(n) == n + 2
Spawn(n) == n + 1

CreateWatcher ==
    /\ watcher = "none"
    /\ spawned' = Spawn(spawned)
    /\ th_pc' = "recv"
    /\ \/ NewOk
       \/ \E e \in NotifyErrors : NewFailed(e)
    /\ UNCHANGED <<raw_sent, chan, consumed, th_event, th_last, sinkCalls, watchVars,
                   iterVars, restVars>>

(***************************************************************************)
(* The observer feeding the channel (the notify watcher owns the sender).  *)
(***************************************************************************)
IsPrefix(p, q) == Len(p) <= Len(q) /\ SubSeq(q, 1, Len(p)) = p

\* FileSystemWatchMode: Normal watches the given path only, excluding what it
\* contains; Recursive watches the whole directory below it as well.
Watches(r, p) ==
    \/ r.path = p
    \/ r.notify_mode = "Recursive" /\ IsPrefix(r.path, p)

Observed(raw) ==
    IF raw.kind \in { "Rescan", "Error" }
        THEN TRUE
        ELSE \E r \in registered :
                \/ Watches(r, raw.path[1])
                \/ IF raw.to # None THEN Watches(r, raw.to[1]) ELSE FALSE

BackendEmit(raw) ==
    /\ senderAlive
    /\ Len(raw_sent) < MaxRaw
    /\ Observed(raw)
    /\ chan' = Append(chan, raw)
    /\ raw_sent' = Append(raw_sent, raw)
    /\ UNCHANGED <<spawned, watcher, createResult, senderAlive, consumed, th_pc, th_event,
                   th_last, sinkCalls, watchVars, iterVars, restVars>>

(***************************************************************************)
(* The background thread's loop.                                           *)
(***************************************************************************)
\* raw_events_recv.recv(): the oldest pending event, or failure once the
\* channel is empty and its sender is gone.
\* Variant: recv blocks for ever on a closed channel.
RecvFails_never == FALSE
RecvFails == chan = <<>> /\ ~senderAlive

\* Variant: recv hands out the newest pending event.
RecvTakes_newest == chan[Len(chan)]
RecvTakes == Head(chan)

RecvLeaves == Tail(chan)

\* The locks the loop takes: none; it touches only its receiver and the sink.
\* Variant: the loop takes the watcher's mutex around every step.
ThreadLocks_mutex == { "raw_watcher" }
ThreadLocks == {}

ThreadMayRun == "raw_watcher" \in ThreadLocks => mutex = None

ThreadRecv ==
    /\ th_pc = "recv"
    /\ ThreadMayRun
    /\ \/ /\ chan # <<>>
          /\ th_event' = Some(RecvTakes)
          /\ consumed' = Append(consumed, RecvTakes)
          /\ chan' = RecvLeaves
          /\ th_pc' = "deliver"
       \/ /\ RecvFails
          /\ th_pc' = "done"
          /\ UNCHANGED <<th_event, consumed, chan>>
    /\ UNCHANGED <<spawned, watcher, createResult, senderAlive, raw_sent, th_last, sinkCalls,
                   watchVars, iterVars, restVars>>

\* What the loop does after a send: the result is discarded by .ok().
\* Variant: a failed send ends the loop.
AfterSend_stops_on_error(sendOk) == IF sendOk THEN "recv" ELSE "done"
AfterSend(sendOk) == "recv"

ThreadDeliver ==
    /\ th_pc = "deliver"
    /\ ThreadMayRun
    /\ LET user_event == filter_raw_fs_event(th_event[1]) IN
          \/ /\ user_event # None
             /\ \E sendOk \in BOOLEAN :
                   /\ sinkCalls' = Append(sinkCalls, [ev |-> user_event[1], ok |-> sendOk])
                   /\ th_pc' = AfterSend(sendOk)
             /\ th_last' = Some([raw |-> th_event[1], out |-> user_event, sent |-> TRUE])
          \/ /\ user_event = None
             /\ sinkCalls' = sinkCalls
             /\ th_pc' = "recv"
             /\ th_last' = Some([raw |-> th_event[1], out |-> user_event, sent |-> FALSE])
    /\ th_event' = None
    /\ UNCHANGED <<spawned, watcher, createResult, senderAlive, raw_sent, chan, consumed,
                   watchVars, iterVars, restVars>>

(***************************************************************************)
(* Dropping the watcher drops raw_watcher, and with it the sender.         *)
(***************************************************************************)
\* Variant: the sender outlives the watcher.
DropCloses_not == senderAlive
DropCloses == FALSE

DropWatcher ==
    /\ watcher = "alive"
    /\ \A t \in Threads : w_pc[t] \in { "idle", "panicked" }
    /\ watcher' = "dropped"
    /\ senderAlive' = DropCloses
    /\ UNCHANGED <<spawned, createResult, raw_sent, chan, consumed, th_pc, th_event, th_last,
                   sinkCalls, watchVars, iterVars, restVars>>

(***************************************************************************)
(* FileSystemWatcher::watch.                                               *)
(***************************************************************************)
\* Variant: every mode is registered as non-recursive.
notify_mode_of_flat(mode) == "NonRecursive"
notify_mode_of(mode) == IF mode = "Normal" THEN "NonRecursive" ELSE "Recursive"

\* The positions of a caller that is inside watch.
InCall == { "waiting", "locked", "inside" }

\* self.raw_watcher.lock(): blocks while another thread holds the guard.
\* Variant: the observer is entered without waiting for the guard.
LockFree_unguarded == TRUE
LockFree == mutex = None

\* The call begins: the mode is translated, then the caller goes for the lock.
WatchEnter(t, path, mode) ==
    /\ watcher = "alive"
    /\ w_pc[t] = "idle"
    /\ w_pc' = [w_pc EXCEPT ![t] = "waiting"]
    /\ w_mode' = [w_mode EXCEPT ![t] = mode]
    /\ w_args' = [w_args EXCEPT ![t] = [path |-> path, notify_mode |-> notify_mode_of(mode)]]
    /\ w_result' = [w_result EXCEPT ![t] = None]
    /\ w_waited' = [w_waited EXCEPT ![t] = \E u \in Threads \ { t } : w_pc[u] \in InCall]
    /\ UNCHANGED <<pipeVars, iterVars, restVars, registered, mutex, poisoned, w_tmp>>

\* .expect("mutex lock failed") on the PoisonError of a poisoned lock.
\* Variant: the guard is taken out of the PoisonError and the call goes on.
ExpectPanics_recovers == FALSE
ExpectPanics == TRUE

\* .lock().expect("mutex lock failed"): a poisoned lock aborts the caller.
WatchLock(t) ==
    /\ w_pc[t] = "waiting"
    /\ LockFree
    /\ IF poisoned /\ ExpectPanics
          THEN /\ w_pc' = [w_pc EXCEPT ![t] = "panicked"]
               /\ UNCHANGED mutex
          ELSE /\ w_pc' = [w_pc EXCEPT ![t] = "locked"]
               /\ mutex' = Some(t)
    /\ UNCHANGED <<pipeVars, iterVars, restVars, registered, poisoned, w_mode, w_args, w_tmp,
                   w_result, w_waited>>

\* lock.watch(path, notify_mode): the observer reads its registrations, ...
BackendRead(t) ==
    /\ w_pc[t] = "locked"
    /\ w_tmp' = [w_tmp EXCEPT ![t] = registered]
    /\ w_pc' = [w_pc EXCEPT ![t] = "inside"]
    /\ UNCHANGED <<pipeVars, iterVars, restVars, registered, mutex, poisoned, w_mode, w_args,
                   w_result, w_waited>>

\* ... and stores them with the new one added, or rejects the path, or panics;
\* then the guard is dropped.
Unlock(t) == IF mutex = Some(t) THEN None ELSE mutex

\* The registrations after an accepted call.
\* Variant: the observer keeps only the path registered last.
Registers_replaces(t) == { w_args[t] }
Registers(t) == w_tmp[t] \cup { w_args[t] }

BackendWrite(t) ==
    /\ w_pc[t] = "inside"
    /\ \/ /\ registered' = Registers(t)
          /\ w_result' = [w_result EXCEPT ![t] = Some(Ok(Unit))]
          /\ w_pc' = [w_pc EXCEPT ![t] = "idle"]
          /\ UNCHANGED poisoned
       \/ /\ \E e \in NotifyErrors :
                w_result' = [w_result EXCEPT ![t] = Some(Err(from_inner(e)))]
          /\ w_pc' = [w_pc EXCEPT ![t] = "idle"]
          /\ UNCHANGED <<registered, poisoned>>
       \/ /\ poisoned' = TRUE
          /\ w_pc' = [w_pc EXCEPT ![t] = "panicked"]
          /\ UNCHANGED <<registered, w_result>>
    /\ mutex' = Unlock(t)
    /\ w_tmp' = [w_tmp EXCEPT ![t] = {}]
    /\ UNCHANGED <<pipeVars, iterVars, restVars, w_mode, w_args, w_waited>>

(***************************************************************************)
(* read_directory and LocalFileSystemIter.                                 *)
(***************************************************************************)
\* Names of the entries of the listed directory, and the failures of the OS.
EntryPaths == { <<"d", "a">>, <<"d", "b">>, <<"d", "s">> }
IoErrors == { "io_err" }

\* One element of std::fs::ReadDir: io::Result<DirEntry>.
EntryResults == { Ok(p) : p \in EntryPaths } \cup { Err(e) : e \in IoErrors }

RECURSIVE SeqsUpTo(_, _)
SeqsUpTo(S, n) ==
    IF n = 0 THEN { <<>> }
    ELSE LET shorter == SeqsUpTo(S, n - 1) IN
         shorter \cup { Append(q, x) : q \in shorter, x \in S }

\* A directory lists each of its entries once; reading an entry may fail.
Listings ==
    { l \in SeqsUpTo(EntryResults, MaxEntries) :
          \A i, j \in 1..Len(l) : (i # j /\ l[i].ok /\ l[j].ok) => l[i] # l[j] }

\* LocalFileSystemIter::new / LocalFileSystem::read_directory.
ReadDirectory ==
    /\ rd_result = None
    /\ \/ \E l \in Listings :
             /\ rd_result' = Some(Ok("iter"))
             /\ it_listing' = l
             /\ it_inner' = l
       \/ \E e \in IoErrors :
             /\ rd_result' = Some(Err(from_inner(e)))
             /\ UNCHANGED <<it_listing, it_inner>>
    /\ UNCHANGED <<it_out, it_ended, pipeVars, watchVars, restVars>>

\* r.map(|e| e.path()).map_err(Error::from_inner)
MapEntry(r) == IF r.ok THEN Ok(r.val) ELSE Err(from_inner(r.err))

\* self.inner.next() advances the underlying listing by one entry.
\* Variant: the listing is cut short after an entry that failed.
InnerRest_fused(inner) == IF Head(inner).ok THEN Tail(inner) ELSE <<>>
\* Variant: the listing does not advance, the same entry is read again.
InnerRest_stuck(inner) == inner
InnerRest(inner) == Tail(inner)

\* LocalFileSystemIter::next
IterNext ==
    /\ rd_result # None
    /\ rd_result[1].ok
    /\ \/ /\ it_inner # <<>>
          /\ it_out' = Append(it_out, MapEntry(Head(it_inner)))
          /\ it_inner' = InnerRest(it_inner)
          /\ UNCHANGED it_ended
       \/ /\ it_inner = <<>>
          /\ it_ended' = TRUE
          /\ UNCHANGED <<it_out, it_inner>>
    /\ UNCHANGED <<rd_result, it_listing, pipeVars, watchVars, restVars>>

(***************************************************************************)
(* has_file and has_dir.                                                   *)
(***************************************************************************)
\* std::fs::metadata: fails for a path that does not exist or cannot be read.
metadata(fs, p) == IF fs[p] \in { "missing", "denied" } THEN Err("io_err") ELSE Ok(fs[p])

\* Path::is_file / Path::is_dir: metadata(..).map(|m| m.is_file()).unwrap_or(false)
is_file(fs, p) == LET m == metadata(fs, p) IN IF m.ok THEN m.val = "file" ELSE FALSE
is_dir(fs, p) == LET m == metadata(fs, p) IN IF m.ok THEN m.val = "dir" ELSE FALSE

\* Variant: has_dir answers whether the path exists.
has_dir_exists(fs, p) == metadata(fs, p).ok
\* LocalFileSystem::has_file, LocalFileSystem::has_dir
has_file(fs, p) == is_file(fs, p)
has_dir(fs, p) == is_dir(fs, p)

\* The environment creates, removes or replaces what is at a path.
FsChange(p, k) ==
    /\ fs_kind[p] # k
    /\ fs_kind' = [fs_kind EXCEPT ![p] = k]
    /\ UNCHANGED <<probe, pipeVars, watchVars, iterVars, treeVars, sinkVars>>

HasFile(p) ==
    /\ probe' = Some([op |-> "has_file", path |-> p, kind |-> fs_kind[p],
                      ret |-> has_file(fs_kind, p)])
    /\ UNCHANGED <<fs_kind, pipeVars, watchVars, iterVars, treeVars, sinkVars>>

HasDir(p) ==
    /\ probe' = Some([op |-> "has_dir", path |-> p, kind |-> fs_kind[p],
                      ret |-> has_dir(fs_kind, p)])
    /\ UNCHANGED <<fs_kind, pipeVars, watchVars, iterVars, treeVars, sinkVars>>

(***************************************************************************)
(* The document tree and its visitor.                                      *)
(* A node is named by its position: <<>> is the GlobalizedBooks node, <<i>> *)
(* its i-th book, <<i, 0>> that book's preface, <<i, j>> its j-th section,  *)
(* and a longer position the k-th subsection of the section it extends.    *)
(* Book is taken with the fields Book::visit reads, preface and sections.  *)
(***************************************************************************)
KindOf(n) ==
    IF Len(n) = 0 THEN "GlobalizedBooks" ELSE IF Len(n) = 1 THEN "Book" ELSE "Section"

NumKids(T, n) == Cardinality({ m \in T : Len(m) = Len(n) + 1 /\ IsPrefix(n, m) })

\* GlobalizedBooks.books, Book.preface, Book.sections, Section.subsections
books(T) == [i \in 1..NumKids(T, <<>>) |-> <<i>>]
preface(b) == Append(b, 0)
sections(T, b) == [i \in 1..(NumKids(T, b) - 1) |-> Append(b, i)]
subsections(T, sec) == [i \in 1..NumKids(T, sec) |-> Append(sec, i)]

\* The document is put together before it is visited.
AddBook ==
    /\ tr_pc = "idle"
    /\ Cardinality(tr_tree) + 2 <= MaxNodes
    /\ LET b == <<NumKids(tr_tree, <<>>) + 1>> IN
          tr_tree' = tr_tree \cup { b, preface(b) }
    /\ UNCHANGED <<tr_stack, tr_calls, tr_pc, pipeVars, watchVars, iterVars, fsVars, sinkVars>>

AddSection(n) ==
    /\ tr_pc = "idle"
    /\ Cardinality(tr_tree) + 1 <= MaxNodes
    /\ n \in tr_tree
    /\ KindOf(n) # "GlobalizedBooks"
    /\ tr_tree' = tr_tree \cup
          { IF KindOf(n) = "Book" THEN Append(n, NumKids(tr_tree, n))
                                 ELSE Append(n, NumKids(tr_tree, n) + 1) }
    /\ UNCHANGED <<tr_stack, tr_calls, tr_pc, pipeVars, watchVars, iterVars, fsVars, sinkVars>>

\* The Visitor function a host calls on itself.
VisitFn(n) ==
    IF KindOf(n) = "GlobalizedBooks" THEN "visit_globalized_books"
    ELSE IF KindOf(n) = "Book" THEN "visit_book" ELSE "visit_section"

Reverse(q) == [i \in 1..Len(q) |-> q[Len(q) + 1 - i]]

\* The hosts a host's visit goes on to, in order, after its own Visitor call.
HostsOf(T, n) ==
    IF KindOf(n) = "GlobalizedBooks" THEN books(T)
    ELSE IF KindOf(n) = "Book" THEN <<preface(n)>> \o sections(T, n)
    ELSE subsections(T, n)

\* Variant: the loops run from the last element to the first.
Hosts_backwards(T, n) == Reverse(HostsOf(T, n))
Hosts(T, n) == HostsOf(T, n)

\* visit(host, visitor) on the GlobalizedBooks node: its own Visitor call.
VisitStart ==
    /\ tr_pc = "idle"
    /\ tr_pc' = "run"
    /\ tr_calls' = <<[fn |-> VisitFn(<<>>), node |-> <<>>]>>
    /\ tr_stack' = <<[node |-> <<>>, next |-> 1]>>
    /\ UNCHANGED <<tr_tree, pipeVars, watchVars, iterVars, fsVars, sinkVars>>

\* The running visit calls visit on its next host, which calls the Visitor.
VisitChild ==
    /\ tr_pc = "run"
    /\ LET top == tr_stack[Len(tr_stack)]
           hosts == Hosts(tr_tree, top.node)
       IN  /\ top.next <= Len(hosts)
           /\ tr_calls' = Append(tr_calls, [fn |-> VisitFn(hosts[top.next]),
                                            node |-> hosts[top.next]])
           /\ tr_stack' = Append([tr_stack EXCEPT ![Len(tr_stack)].next = top.next + 1],
                                 [node |-> hosts[top.next], next |-> 1])
    /\ UNCHANGED <<tr_tree, tr_pc, pipeVars, watchVars, iterVars, fsVars, sinkVars>>

\* The running visit has no host left and returns to its caller.
VisitReturn ==
    /\ tr_pc = "run"
    /\ LET top == tr_stack[Len(tr_stack)] IN
          top.next > Len(Hosts(tr_tree, top.node))
    /\ tr_stack' = SubSeq(tr_stack, 1, Len(tr_stack) - 1)
    /\ tr_pc' = IF Len(tr_stack) = 1 THEN "done" ELSE "run"
    /\ UNCHANGED <<tr_tree, tr_calls, pipeVars, watchVars, iterVars, fsVars, sinkVars>>

(***************************************************************************)
(* impl FileSystemEventSink for Sender<FileSystemEvent>: the sending end   *)
(* of a std::sync::mpsc::channel, the consumer holding the Receiver.       *)
(***************************************************************************)
SinkSample == { Create(p) : p \in FilePaths } \cup { Delete(p) : p \in FilePaths }

\* Sender::send succeeds as long as the Receiver exists; it never waits for
\* room.
\* Variant: the channel refuses an event while one is pending.
SinkAccepts_one_pending == sink_rx /\ sink_queue = <<>>
SinkAccepts == sink_rx

\* FileSystemEventSink::send for Sender: self.send(event).map_err(from_inner)
SinkSend(ev) ==
    /\ Len(sink_sent) < MaxSend
    /\ IF SinkAccepts
          THEN /\ sink_queue' = Append(sink_queue, ev)
               /\ sink_sent' = Append(sink_sent, [ev |-> ev, ret |-> Ok(Unit)])
          ELSE /\ sink_queue' = sink_queue
               /\ sink_sent' = Append(sink_sent, [ev |-> ev, ret |-> Err(from_inner(ev))])
    /\ UNCHANGED <<sink_rx, sink_got, pipeVars, watchVars, iterVars, fsVars, treeVars>>

\* Receiver::recv by the consumer: the oldest pending event.
SinkRecv ==
    /\ sink_rx
    /\ sink_queue # <<>>
    /\ sink_got' = Append(sink_got, Head(sink_queue))
    /\ sink_queue' = Tail(sink_queue)
    /\ UNCHANGED <<sink_rx, sink_sent, pipeVars, watchVars, iterVars, fsVars, treeVars>>

\* The consumer drops the Receiver; what was pending is discarded.
SinkDropReceiver ==
    /\ sink_rx
    /\ sink_rx' = FALSE
    /\ sink_queue' = <<>>
    /\ UNCHANGED <<sink_sent, sink_got, pipeVars, watchVars, iterVars, fsVars, treeVars>>

(***************************************************************************)
(* Specifications.                                                         *)
(***************************************************************************)
\* The watcher's life: construction, concurrent watch calls, drop.
Next ==
    \/ CreateWatcher
    \/ ThreadRecv
    \/ DropWatcher
    \/ \E t \in Threads, path \in WatchPaths, mode \in WatchModes : WatchEnter(t, path, mode)
    \/ \E t \in Threads : WatchLock(t)
    \/ \E t \in Threads : BackendRead(t)
    \/ \E t \in Threads : BackendWrite(t)

Spec == Init /\ [][Next]_vars

\* The pipeline of a constructed watcher, whatever its registrations are.
Registrations ==
    { [path |-> p, notify_mode |-> notify_mode_of(m)] : p \in WatchPaths, m \in WatchModes }

PipeStart ==
    /\ watcher = "alive"
    /\ createResult = Some(Ok("watcher"))
    /\ senderAlive = TRUE
    /\ spawned = 1
    /\ raw_sent = <<>>
    /\ chan = <<>>
    /\ consumed = <<>>
    /\ th_pc = "recv"
    /\ th_event = None
    /\ th_last = None
    /\ sinkCalls = <<>>
    /\ mutex = None
    /\ poisoned = FALSE
    /\ w_pc = [t \in Threads |-> "idle"]
    /\ w_mode = [t \in Threads |-> "Normal"]
    /\ w_args = [t \in Threads |-> NoArgs]
    /\ w_tmp = [t \in Threads |-> {}]
    /\ w_result = [t \in Threads |-> None]
    /\ w_waited = [t \in Threads |-> FALSE]
    /\ rd_result = None
    /\ it_listing = <<>>
    /\ it_inner = <<>>
    /\ it_out = <<>>
    /\ it_ended = FALSE
    /\ fs_kind = [p \in ProbePaths |-> "missing"]
    /\ probe = None
    /\ tr_tree = { <<>> }
    /\ tr_stack = <<>>
    /\ tr_calls = <<>>
    /\ tr_pc = "idle"
    /\ sink_rx = TRUE
    /\ sink_queue = <<>>
    /\ sink_sent = <<>>
    /\ sink_got = <<>>

InitPipe ==
    /\ PipeStart
    /\ registered \in SUBSET Registrations

NextPipe ==
    \/ \E raw \in RawEvents : BackendEmit(raw)
    \/ ThreadRecv
    \/ ThreadDeliver
    \/ DropWatcher

SpecPipe == InitPipe /\ [][NextPipe]_vars

\* The pipeline of a watcher whose one registration is the directory d, under
\* fair scheduling: the background thread is an OS thread, which runs whenever
\* it can.
InitFair ==
    /\ PipeStart
    /\ registered \in { { r } : r \in { x \in Registrations : x.path = <<"d">> } }

FairPipe ==
    InitFair /\ [][NextPipe]_vars /\ WF_vars(ThreadRecv) /\ WF_vars(ThreadDeliver)

\* One directory listing, pulled entry by entry.
NextIter ==
    \/ ReadDirectory
    \/ IterNext

SpecIter == Init /\ [][NextIter]_vars

\* A watcher from its construction on, which may fail, with the background
\* thread scheduled fairly.
NextNew ==
    \/ CreateWatcher
    \/ \E raw \in RawEvents : BackendEmit(raw)
    \/ ThreadRecv
    \/ ThreadDeliver
    \/ DropWatcher

FairNew ==
    Init /\ [][NextNew]_vars /\ WF_vars(ThreadRecv) /\ WF_vars(ThreadDeliver)

\* One caller registering paths while the pipeline is running. The observer
\* reports one raw kind the filter keeps and one it drops.
SampleRaw == { raw \in RawEvents : raw.kind \in { "Write", "Rescan" } }

NextBoth ==
    \/ CreateWatcher
    \/ \E path \in WatchPaths, mode \in WatchModes : WatchEnter("t1", path, mode)
    \/ WatchLock("t1")
    \/ BackendRead("t1")
    \/ BackendWrite("t1")
    \/ \E raw \in SampleRaw : BackendEmit(raw)
    \/ ThreadRecv
    \/ ThreadDeliver
    \/ DropWatcher

SpecBoth == Init /\ [][NextBoth]_vars

\* A document tree is built, then visited once from its root.
NextTree ==
    \/ AddBook
    \/ \E n \in tr_tree : AddSection(n)
    \/ VisitStart
    \/ VisitChild
    \/ VisitReturn

SpecTree == Init /\ [][NextTree]_vars

\* A Sender used as the sink, and the consumer at the other end.
NextSink ==
    \/ \E ev \in SinkSample : SinkSend(ev)
    \/ SinkRecv
    \/ SinkDropReceiver

SpecSink == Init /\ [][NextSink]_vars

\* Probes of a file system that changes underneath them.
NextFs ==
    \/ \E p \in ProbePaths, k \in FsKinds : FsChange(p, k)
    \/ \E p \in ProbePaths : HasFile(p)
    \/ \E p \in ProbePaths : HasDir(p)

SpecFs == Init /\ [][NextFs]_vars

(***************************************************************************)
(* Properties of the change-notification pipeline.                         *)
(***************************************************************************)
\* The raw events the background thread has finished with: sent, received and
\* taken through the filter and the sink.
Processed == SubSeq(raw_sent, 1, Len(raw_sent) - Len(chan) - Len(th_event))

\* The events handed to event_sink.send, in call order.
SinkEvents == [i \in 1..Len(sinkCalls) |-> sinkCalls[i].ev]

RECURSIVE NormalizedSeq(_)
NormalizedSeq(raws) ==
    IF raws = <<>> THEN <<>>
    ELSE filter_raw_fs_event(Head(raws)) \o NormalizedSeq(Tail(raws))

RECURSIVE Count(_, _)
Count(q, x) ==
    IF q = <<>> THEN 0
    ELSE (IF Head(q) = x THEN 1 ELSE 0) + Count(Tail(q), x)

RawOf(kind, path) == [kind |-> kind, path |-> Some(path), to |-> None, err |-> None]
RawRename(from, to) == [kind |-> "Rename", path |-> Some(from), to |-> Some(to), err |-> None]

\* C1: the events passed to the sink's send are exactly the normalized results
\* of the raw events the backend sent, in the order it sent them: nothing is
\* reordered, merged or duplicated.
C1_SinkOrderIsRawOrder ==
    /\ SinkEvents = NormalizedSeq(Processed)
    /\ consumed \o chan = raw_sent

C1_Witness ==
    /\ Len(sinkCalls) = 2
    /\ sinkCalls[1].ev # sinkCalls[2].ev
    /\ raw_sent[1].kind = "Write"
    /\ raw_sent[2].kind = "Create"

\* C2: the filter maps a raw creation to Create(path), a removal to
\* Delete(path), a rename to Rename{from, to}, a write to Write(path), a backend
\* error to Error(Inner, path), and every other raw kind to nothing, in which
\* case the sink is not called.
C2_FilterTable ==
    th_last # None =>
        LET raw == th_last[1].raw
            out == th_last[1].out
        IN  /\ raw.kind = "Create" =>
                  out = <<[kind |-> "Create", path |-> raw.path[1]]>>
            /\ raw.kind = "Remove" =>
                  out = <<[kind |-> "Delete", path |-> raw.path[1]]>>
            /\ raw.kind = "Rename" =>
                  out = <<[kind |-> "Rename", from |-> raw.path[1], to |-> raw.to[1]]>>
            /\ raw.kind = "Write" =>
                  out = <<[kind |-> "Write", path |-> raw.path[1]]>>
            /\ raw.kind = "Error" =>
                  out = <<[kind |-> "Error",
                           err |-> [variant |-> "Inner", inner |-> raw.err[1]],
                           path |-> raw.path]>>
            /\ raw.kind \in { "NoticeWrite", "NoticeRemove", "Chmod", "Rescan" } =>
                  out = <<>>
            /\ th_last[1].sent = (out # <<>>)
            /\ th_last[1].sent => sinkCalls[Len(sinkCalls)].ev = out[1]

C2_Witness ==
    /\ th_last # None
    /\ th_last[1].raw.kind = "Chmod"
    /\ ~th_last[1].sent
    /\ Len(sinkCalls) = 1
    /\ sinkCalls[1].ev.kind = "Error"
    /\ sinkCalls[1].ev.path = None

\* C3: a failed send is discarded: the thread neither retries it nor stops; it
\* stops only once the channel is closed and empty, and every raw event it has
\* finished with was offered to the sink once if the filter kept it.
C3_SendErrorSwallowed ==
    /\ [](th_pc = "done" => (chan = <<>> /\ ~senderAlive))
    /\ [](Len(sinkCalls) = Len(NormalizedSeq(Processed)))
    /\ [][(Len(sinkCalls') = Len(sinkCalls) + 1 /\ ~sinkCalls'[Len(sinkCalls')].ok) =>
             (th_pc' = "recv" /\ chan' = chan)]_vars

C3_Witness ==
    /\ Len(sinkCalls) = 2
    /\ ~sinkCalls[1].ok
    /\ sinkCalls[2].ok
    /\ senderAlive

\* C4: once the watcher is dropped the producer side of the channel is closed,
\* and the background thread eventually terminates.
C4_DropTerminatesThread ==
    /\ [](watcher = "dropped" => ~senderAlive)
    /\ (watcher = "dropped") ~> (th_pc = "done")

C4_Witness ==
    /\ watcher = "dropped"
    /\ th_pc = "done"
    /\ Len(raw_sent) = MaxRaw

\* C5 as stated: once the watcher is dropped nothing more is delivered to the
\* sink, even if raw events are still pending.
C5_NoDeliveryAfterDrop ==
    [][watcher = "dropped" => sinkCalls' = sinkCalls]_vars

\* C5 as amended: once the watcher is dropped no new raw event enters the
\* channel; what is delivered afterwards is only the normalized form of raw
\* events that were already pending, and nothing is delivered once the thread
\* has terminated.
C5_OnlyPendingAfterDrop ==
    [][watcher = "dropped" =>
          /\ raw_sent' = raw_sent
          /\ Len(chan') <= Len(chan)
          /\ sinkCalls' # sinkCalls =>
                /\ th_event # None
                /\ Len(sinkCalls') = Len(sinkCalls) + 1
                /\ <<sinkCalls'[Len(sinkCalls')].ev>> = filter_raw_fs_event(th_event[1])
          /\ th_pc = "done" => (th_pc' = "done" /\ sinkCalls' = sinkCalls)]_vars

C5_Witness ==
    /\ watcher = "dropped"
    /\ Len(chan) = 1
    /\ th_event # None
    /\ filter_raw_fs_event(th_event[1]) # None
    /\ sinkCalls = <<>>

\* C7: a file created under a directory registered with watch(dir, Recursive)
\* yields exactly one Create(path) at the sink per creation, eventually, and
\* no Write event for the path is needed for it.
C7_CreateDeliveredOnce ==
    /\ [](\A p \in FilePaths :
            Count(SinkEvents, [kind |-> "Create", path |-> p])
                = Count(Processed, RawOf("Create", p)))
    /\ []<>(\A p \in FilePaths :
              Count(SinkEvents, [kind |-> "Create", path |-> p])
                  = Count(raw_sent, RawOf("Create", p)))

C7_Witness ==
    /\ registered = { [path |-> <<"d">>, notify_mode |-> "Recursive"] }
    /\ raw_sent = << RawOf("Create", <<"d", "s", "b">>) >>
    /\ SinkEvents = << [kind |-> "Create", path |-> <<"d", "s", "b">>] >>

\* C8: a rename of a to b yields exactly one Rename{from: a, to: b} at the
\* sink; Delete(a) and Create(b) are delivered only for raw removals of a and
\* raw creations of b, never on account of the rename.
C8_RenameIsOneEvent ==
    \A a \in FilePaths : \A b \in FilePaths \ { a } :
        /\ Count(SinkEvents, [kind |-> "Rename", from |-> a, to |-> b])
              = Count(Processed, RawRename(a, b))
        /\ Count(SinkEvents, [kind |-> "Delete", path |-> a])
              = Count(Processed, RawOf("Remove", a))
        /\ Count(SinkEvents, [kind |-> "Create", path |-> b])
              = Count(Processed, RawOf("Create", b))

C8_Witness ==
    /\ raw_sent = << RawRename(<<"d", "a">>, <<"d", "s", "b">>) >>
    /\ SinkEvents = << [kind |-> "Rename", from |-> <<"d", "a">>, to |-> <<"d", "s", "b">>] >>
    /\ th_pc = "recv"

(***************************************************************************)
(* Properties of watcher construction and registration.                    *)
(***************************************************************************)
InWatch(t) == w_pc[t] \in { "locked", "inside" }

C9_InitFailureIsFatal ==
    /\ (createResult # None /\ ~createResult[1].ok) =>
          /\ createResult[1].err.variant = "Inner"
          /\ watcher = "failed"
          /\ ~senderAlive
          /\ registered = {}
          /\ \A t \in Threads : w_pc[t] = "idle" /\ w_result[t] = None
    /\ watcher \in { "alive", "dropped" } => createResult = Some(Ok("watcher"))

C9_Witness ==
    /\ createResult # None
    /\ ~createResult[1].ok
    /\ watcher = "failed"

(***************************************************************************)
(* Properties of the directory iterator.                                   *)
(***************************************************************************)
\* C10: an Error yielded for one entry does not end the sequence: every entry
\* of the listing is yielded in turn with its own success or error, and the
\* sequence ends only after the last entry.
C10_ErrorsArePerItem ==
    /\ Len(it_out) <= Len(it_listing)
    /\ \A i \in 1..Len(it_out) :
          IF it_listing[i].ok
              THEN it_out[i] = [ok |-> TRUE, val |-> it_listing[i].val]
              ELSE it_out[i] = [ok |-> FALSE,
                                err |-> [variant |-> "Inner", inner |-> it_listing[i].err]]
    /\ it_inner = SubSeq(it_listing, Len(it_out) + 1, Len(it_listing))
    /\ it_ended => Len(it_out) = Len(it_listing)

C10_Witness ==
    /\ Len(it_out) = 3
    /\ ~it_out[1].ok
    /\ it_out[2].ok
    /\ ~it_out[3].ok
    /\ it_ended

\* C11: the sequence returned by read_directory is single-pass: it yields at
\* most as many items as the directory has entries, each entry's path as a
\* success exactly once, and then ends; once ended it yields nothing more, and
\* the listing it walks is never replaced or rewound.
C11_EachEntryOnceThenEnd ==
    /\ [](Len(it_out) <= Len(it_listing))
    /\ [](\A p \in EntryPaths :
            /\ Count(it_out, Ok(p)) <= 1
            /\ Count(it_out, Ok(p)) <= Count(it_listing, Ok(p))
            /\ it_ended => Count(it_out, Ok(p)) = Count(it_listing, Ok(p)))
    /\ [][it_ended => (it_ended' /\ it_out' = it_out)]_vars
    /\ [][rd_result # None =>
             /\ rd_result' = rd_result
             /\ it_listing' = it_listing
             /\ Len(it_inner') <= Len(it_inner)
             /\ it_out = SubSeq(it_out', 1, Len(it_out))]_vars

C11_Witness ==
    /\ it_ended
    /\ Len(it_listing) = 3
    /\ \A i \in 1..3 : it_listing[i].ok
    /\ it_out = <<Ok(<<"d", "s">>), Ok(<<"d", "a">>), Ok(<<"d", "b">>)>>

(***************************************************************************)
(* Properties of the existence predicates.                                 *)
(***************************************************************************)
\* C12: has_file and has_dir always answer with a boolean, never an error:
\* a regular file gives has_file true and has_dir false, a directory gives
\* has_dir true and has_file false, a path that does not exist gives false for
\* both, and no path has both true.
C12_ProbesAreTotal ==
    /\ \A p \in ProbePaths :
          /\ has_file(fs_kind, p) \in BOOLEAN
          /\ has_dir(fs_kind, p) \in BOOLEAN
          /\ ~(has_file(fs_kind, p) /\ has_dir(fs_kind, p))
          /\ fs_kind[p] = "file" => (has_file(fs_kind, p) /\ ~has_dir(fs_kind, p))
          /\ fs_kind[p] = "dir" => (has_dir(fs_kind, p) /\ ~has_file(fs_kind, p))
          /\ fs_kind[p] = "missing" => (~has_file(fs_kind, p) /\ ~has_dir(fs_kind, p))
    /\ probe # None =>
          /\ probe[1].ret \in BOOLEAN
          /\ probe[1].op = "has_file" => (probe[1].ret <=> probe[1].kind = "file")
          /\ probe[1].op = "has_dir" => (probe[1].ret <=> probe[1].kind = "dir")

C12_Witness ==
    /\ fs_kind[<<"d">>] = "dir"
    /\ fs_kind[<<"d", "a">>] = "file"
    /\ probe = Some([op |-> "has_dir", path |-> <<"d", "a">>, kind |-> "file", ret |-> FALSE])

(***************************************************************************)
(* Properties of watch: rejection, poisoning, modes.                       *)
(***************************************************************************)
Rejected(t) == w_result[t] # None /\ ~w_result[t][1].ok

\* C13: when the backend rejects the path, watch returns an Inner error as a
\* value, the set of registered paths is left as it was, and the watcher stays
\* usable: the caller is back outside the call, the lock is free of it and not
\* poisoned by the rejection, so later watch calls can go through.
C13_RejectionLeavesWatcherUsable ==
    /\ [][\A t \in Threads :
             (~Rejected(t) /\ Rejected(t)') =>
                 /\ w_result'[t][1].err.variant = "Inner"
                 /\ w_pc[t] = "inside"
                 /\ w_pc'[t] = "idle"
                 /\ registered' = registered
                 /\ poisoned' = poisoned
                 /\ mutex' = None
                 /\ watcher' = "alive"]_vars
    /\ [](\A t \in Threads :
            (Rejected(t) /\ watcher = "alive") =>
                \A path \in WatchPaths, mode \in WatchModes : ENABLED WatchEnter(t, path, mode))

C13_Witness ==
    /\ Rejected("t1")
    /\ w_pc["t1"] = "idle"
    /\ registered = {}
    /\ w_pc["t2"] = "inside"
    /\ ~w_waited["t2"]

\* C18: a caller that finds the mutex poisoned panics: it returns no value,
\* neither success nor Error, never enters the observer, and registers
\* nothing.
C18_PoisonedLockPanics ==
    /\ [][\A t \in Threads :
             (poisoned /\ w_pc[t] = "waiting" /\ w_pc'[t] # "waiting") =>
                 /\ w_pc'[t] = "panicked"
                 /\ w_result'[t] = None
                 /\ registered' = registered]_vars
    /\ [](\A t \in Threads : w_pc[t] = "panicked" => (poisoned /\ w_result[t] = None))
    /\ [](poisoned => \A t \in Threads : ~InWatch(t))
    /\ [][poisoned => registered' = registered]_vars

C18_Witness ==
    /\ poisoned
    /\ w_pc["t1"] = "panicked"
    /\ w_pc["t2"] = "panicked"
    /\ w_waited["t2"]
    /\ registered = { w_args["t1"] }
    /\ w_args["t2"] \notin registered

\* C19: watch registers the path with the non-recursive flag when called with
\* Normal and with the recursive flag when called with Recursive: the mode
\* recorded with the path is the mode that was passed.
C19_ModeIsPassedThrough ==
    \A t \in Threads :
        /\ w_mode[t] = "Normal" => w_args[t].notify_mode = "NonRecursive"
        /\ w_mode[t] = "Recursive" => w_args[t].notify_mode = "Recursive"
        /\ (w_pc[t] = "idle" /\ w_result[t] = Some(Ok(Unit))) =>
              /\ w_mode[t] = "Normal" =>
                    [path |-> w_args[t].path, notify_mode |-> "NonRecursive"] \in registered
              /\ w_mode[t] = "Recursive" =>
                    [path |-> w_args[t].path, notify_mode |-> "Recursive"] \in registered

C19_Witness ==
    /\ w_mode = [t \in Threads |-> IF t = "t1" THEN "Recursive" ELSE "Normal"]
    /\ \A t \in Threads : w_pc[t] = "idle" /\ w_result[t] = Some(Ok(Unit))
    /\ registered = { [path |-> <<"d">>, notify_mode |-> "Recursive"],
                      [path |-> <<"d">>, notify_mode |-> "NonRecursive"] }

(***************************************************************************)
(* Properties of the background thread.                                    *)
(***************************************************************************)
\* C15: a watcher has exactly one background thread, started by the
\* create_watcher call; watch calls and everything else start none, so there
\* are never more background threads than create_watcher calls.
C15_OneThreadPerWatcher ==
    /\ [](spawned = IF createResult = None THEN 0 ELSE 1)
    /\ [](th_pc # "none" <=> spawned = 1)
    /\ [][spawned' # spawned =>
             /\ createResult = None
             /\ createResult' # None
             /\ \A t \in Threads : w_pc'[t] = w_pc[t]]_vars

C15_Witness ==
    /\ spawned = 1
    /\ watcher = "alive"
    /\ \A t \in Threads : w_pc[t] = "idle" /\ w_result[t] = Some(Ok(Unit))
    /\ w_args["t1"] # w_args["t2"]
    /\ w_waited["t1"]

\* C16: the background thread never takes or waits for the mutex: whenever it
\* has an event to deliver or to receive it can step, whoever holds the lock,
\* its steps leave the lock and the callers alone, and a caller inside watch
\* can always go on, whatever the thread is doing.
C16_ThreadNeverNeedsLock ==
    /\ [](th_pc = "deliver" => ENABLED ThreadDeliver)
    /\ []((th_pc = "recv" /\ (chan # <<>> \/ ~senderAlive)) => ENABLED ThreadRecv)
    /\ [](\A t \in Threads :
            /\ (w_pc[t] = "waiting" /\ mutex = None) => ENABLED WatchLock(t)
            /\ w_pc[t] = "locked" => ENABLED BackendRead(t)
            /\ w_pc[t] = "inside" => ENABLED BackendWrite(t))
    /\ [][(th_pc' # th_pc \/ sinkCalls' # sinkCalls) =>
             (mutex' = mutex /\ poisoned' = poisoned /\ w_pc' = w_pc)]_vars

C16_Witness ==
    /\ mutex = Some("t1")
    /\ w_pc["t1"] = "inside"
    /\ registered # {}
    /\ th_pc = "deliver"
    /\ th_event[1].kind = "Write"
    /\ chan # <<>>

\* C17: the set of registered (path, mode) pairs changes only when a watch
\* call succeeds, and then only by gaining that call's pair: nothing is ever
\* removed from it, and neither receiving nor delivering an event alters it.
C17_RegistrationsOnlyGrow ==
    [][/\ registered \subseteq registered'
       /\ registered' # registered =>
             \E t \in Threads :
                /\ w_pc[t] = "inside"
                /\ w_pc'[t] = "idle"
                /\ w_result'[t] = Some(Ok(Unit))
                /\ registered' = registered \cup { w_args[t] }
       /\ (sinkCalls' # sinkCalls \/ chan' # chan \/ th_pc' # th_pc) =>
             registered' = registered]_vars

C17_Witness ==
    /\ watcher = "alive"
    /\ Cardinality(registered) = 2
    /\ Len(sinkCalls) = 2
    /\ w_pc["t1"] = "idle"
    /\ Rejected("t1")

(***************************************************************************)
(* Properties of the document tree visitor.                                *)
(***************************************************************************)
\* Position a comes before position b when walking the tree depth-first and
\* pre-order: a is an ancestor of b, or a lies in an earlier subtree.
Before(a, b) ==
    \/ Len(a) < Len(b) /\ IsPrefix(a, b)
    \/ \E k \in 1..Len(a) :
          /\ k <= Len(b)
          /\ SubSeq(a, 1, k - 1) = SubSeq(b, 1, k - 1)
          /\ a[k] < b[k]

RECURSIVE AcceptedOf(_)
AcceptedOf(sends) ==
    IF sends = <<>> THEN <<>>
    ELSE (IF Head(sends).ret.ok THEN <<Head(sends).ev>> ELSE <<>>) \o AcceptedOf(Tail(sends))

\* C20 as stated: the Sender sink is ordered and bounded: events are received
\* in the order sent, and the events sent and not yet received never exceed a
\* fixed capacity, which is to say some number of sends cannot all be pending
\* at once.
C20_SinkBoundedAndOrdered ==
    /\ sink_got = SubSeq(AcceptedOf(sink_sent), 1, Len(sink_got))
    /\ Len(sink_queue) < MaxSend

\* C20 as amended: the Sender sink is ordered and unbounded: events are
\* received in the order sent, a send is accepted whenever the Receiver is
\* alive, however many events are pending, and fails only once the Receiver
\* is gone.
C20_SinkOrderedUnbounded ==
    /\ [](sink_got = SubSeq(AcceptedOf(sink_sent), 1, Len(sink_got)))
    /\ [](sink_rx => sink_got \o sink_queue = AcceptedOf(sink_sent))
    /\ [][Len(sink_sent') > Len(sink_sent) =>
             LET last == sink_sent'[Len(sink_sent')] IN
                /\ last.ret.ok <=> sink_rx
                /\ sink_rx => sink_queue' = Append(sink_queue, last.ev)
                /\ ~sink_rx => last.ret.err.variant = "Inner"]_vars

C20_Witness ==
    /\ sink_rx
    /\ Len(sink_queue) = MaxSend
    /\ sink_queue[1] # sink_queue[2]
    /\ sink_got = <<>>

(***************************************************************************)
(* Properties of a failed construction.                                    *)
(***************************************************************************)
\* C21: when the observer cannot be initialized, the background thread, which
\* was spawned before the attempt, finds the channel closed and empty and
\* terminates; no event ever enters the channel and the sink's send is never
\* called.
C21_FailedInitThreadExits ==
    /\ [](watcher = "failed" =>
            /\ spawned = 1
            /\ ~senderAlive
            /\ raw_sent = <<>>
            /\ chan = <<>>
            /\ th_event = None
            /\ sinkCalls = <<>>
            /\ th_pc \in { "recv", "done" })
    /\ (watcher = "failed") ~> (th_pc = "done")
    /\ [][(watcher = "failed" /\ th_pc = "done") => th_pc' = "done"]_vars

C21_Witness ==
    /\ watcher = "failed"
    /\ createResult # None
    /\ ~createResult[1].ok
    /\ spawned = 1
    /\ th_pc = "done"
    /\ sinkCalls = <<>>

====
